---- MODULE Spec2Model ----
(***************************************************************************)
(* Model of app.py, the Dehradun shortest route finder: the cached graph   *)
(* loader, the route finder, the distance aggregator, the map renderer     *)
(* and the Streamlit script main().                                        *)
(*                                                                         *)
(* Python values are modelled as follows.                                  *)
(*   dict        a set of <<key, value>> pairs                             *)
(*   DiGraph     [nodes |-> node -> <<y, x>>, adj |-> <<u, v>> -> dict]    *)
(*   MultiDiGraph the same, adj : <<u, v>> -> sequence of dicts (keys 0..) *)
(*   float km    [num |-> metres, den |-> 1000]                            *)
(*   exception   a record whose field raised names the exception class     *)
(* Coordinates are degrees * 10^4, so the catalogue's literals are exact.  *)
(***************************************************************************)
EXTENDS Integers, Sequences, FiniteSets, TLC

\* ---------------------------------------------------------------- bounds
\* Largest edge 'length' (metres) in a modelled network.
MaxLength == 2
\* Most edges of a DiGraph handed to the pure functions (SpecRoute).
MaxEdges == 3
\* Most edges (parallel ones counted) of a fetched network (Spec).
MaxNetworkEdges == 2
\* Most script runs of one process (Spec).
MaxRuns == 4
\* Most edges (parallel ones counted) of a network whose collapse is followed
\* by a route search (SpecNetwork).
MaxCollapseEdges == 4
\* Node ids of every modelled graph.
Nodes == {1, 2, 3}
\* Ordered node pairs that may carry an edge (self-loops are left out).
Pairs == {p \in Nodes \X Nodes : p[1] # p[2]}

\* ---------------------------------------------------------------- dicts
\* dict.get(key, default)
DictGet(d, key, default) ==
    IF \E kv \in d : kv[1] = key
    THEN (CHOOSE kv \in d : kv[1] = key)[2]
    ELSE default

\* dict.update(other): the keys of other override those of d.
DictUpdate(d, other) ==
    {kv \in d : ~ \E o \in other : o[1] = kv[1]} \cup other

\* The attribute dicts an edge can carry: 'length' present or missing.
EdgeDicts == {{}} \cup {{<<"length", n>>} : n \in 0..MaxLength}

\* ---------------------------------------------------------------- graphs
\* G.nodes[n]['y'], G.nodes[n]['x'] of the modelled networks.
NodeCoords ==
    [n \in Nodes |-> CASE n = 1 -> <<303250, 780410>>
                       [] n = 2 -> <<302880, 780430>>
                       [] OTHER -> <<304050, 780300>>]

EmptyAdj == [p \in {} |-> {}]

\* adj with the edge p set to data d (a new edge or a replaced one).
WithEdge(adj, p, d) ==
    [q \in (DOMAIN adj) \cup {p} |-> IF q = p THEN d ELSE adj[q]]

\* The simple directed graphs with at most k edges.
RECURSIVE SimpleAdjs(_)
SimpleAdjs(k) ==
    IF k = 0 THEN {EmptyAdj}
    ELSE LET prev == SimpleAdjs(k - 1)
         IN  prev \cup {WithEdge(a, p, d) :
                          a \in prev, p \in Pairs, d \in EdgeDicts}

DiGraphs ==
    {[kind |-> "DiGraph", nodes |-> NodeCoords, adj |-> a] : a \in SimpleAdjs(MaxEdges)}

\* The multigraphs with at most k edges; a further edge of a pair takes the
\* next key, as MultiDiGraph.add_edge does.
RECURSIVE MultiAdjs(_)
MultiAdjs(k) ==
    IF k = 0 THEN {EmptyAdj}
    ELSE LET prev == MultiAdjs(k - 1)
         IN  prev \cup {WithEdge(a, p, IF p \in DOMAIN a
                                       THEN Append(a[p], d) ELSE <<d>>) :
                          a \in prev, p \in Pairs, d \in EdgeDicts}

Networks ==
    {[kind |-> "MultiDiGraph", nodes |-> NodeCoords, adj |-> a] :
        a \in MultiAdjs(MaxNetworkEdges)}

\* ------------------------------------------------- nx.shortest_path
\* A node without an entry in a dist/seen dict.
Absent == -1

\* Mutant of weight: the 'length' attribute is ignored (every edge counts 1).
weight_unit(d) == 1

\* networkx's weight function for weight='length': data.get('length', 1).
weight(d) == DictGet(d, "length", 1)

\* G._succ[v] and G._pred[v], iterated in ascending node id.
RECURSIVE SortedSeq(_)
SortedSeq(S) ==
    IF S = {} THEN <<>>
    ELSE LET m == CHOOSE x \in S : \A y \in S : x <= y
         IN  <<m>> \o SortedSeq(S \ {m})

Succ(G, v) == SortedSeq({w \in Nodes : <<v, w>> \in DOMAIN G.adj})
Pred(G, v) == SortedSeq({w \in Nodes : <<w, v>> \in DOMAIN G.adj})

Reverse(s) == [i \in 1..Len(s) |-> s[Len(s) + 1 - i]]

\* The inner loop of bidirectional_dijkstra: relax the edges of v towards
\* each neighbour w of ws.  dir = 1 searches forward from the source,
\* dir = 2 backward from the target.
RECURSIVE Relax(_, _, _, _, _)
Relax(G, s, dir, v, ws) ==
    IF ws = <<>> \/ s.raised # "" THEN s
    ELSE
      LET w == Head(ws)
          cost == IF dir = 1 THEN weight(G.adj[<<v, w>>])
                             ELSE weight(G.adj[<<w, v>>])
          vwLength == s.dists[dir][v] + cost
          s1 ==
            IF s.dists[dir][w] # Absent
            THEN IF vwLength < s.dists[dir][w]
                 THEN [s EXCEPT !.raised = "ValueError"]
                 ELSE s
            ELSE IF s.seen[dir][w] = Absent \/ vwLength < s.seen[dir][w]
            THEN
              LET t == [s EXCEPT
                          !.seen[dir][w] = vwLength,
                          !.fringe[dir] = @ \cup {<<vwLength, s.c, w>>},
                          !.c = @ + 1,
                          !.paths[dir][w] = Append(s.paths[dir][v], w)]
              IN  IF t.seen[1][w] # Absent /\ t.seen[2][w] # Absent
                  THEN LET totaldist == t.seen[1][w] + t.seen[2][w]
                       IN  IF t.finalpath = <<>> \/ t.finaldist > totaldist
                           THEN [t EXCEPT
                                   !.finaldist = totaldist,
                                   !.finalpath = t.paths[1][w] \o
                                                 Tail(Reverse(t.paths[2][w]))]
                           ELSE t
                  ELSE t
            ELSE s
      IN  Relax(G, s1, dir, v, Tail(ws))

\* heappop: the entry least by (distance, insertion count).
HeapMin(f) ==
    CHOOSE e \in f : \A o \in f :
        e[1] < o[1] \/ (e[1] = o[1] /\ e[2] <= o[2])

\* The while loop of bidirectional_dijkstra.
RECURSIVE BiLoop(_, _)
BiLoop(G, s) ==
    IF s.raised # "" THEN [raised |-> s.raised, path |-> <<>>]
    ELSE IF s.fringe[1] = {} \/ s.fringe[2] = {}
    THEN [raised |-> "NetworkXNoPath", path |-> <<>>]
    ELSE
      LET dir == 3 - s.dir
          top == HeapMin(s.fringe[dir])
          dist == top[1]
          v == top[3]
          popped == [s EXCEPT !.dir = dir, !.fringe[dir] = @ \ {top}]
      IN  IF s.dists[dir][v] # Absent THEN BiLoop(G, popped)
          ELSE
            LET s1 == [popped EXCEPT !.dists[dir][v] = dist]
            IN  IF s1.dists[3 - dir][v] # Absent
                THEN [raised |-> "", path |-> s1.finalpath]
                ELSE BiLoop(G, Relax(G, s1, dir, v,
                                     IF dir = 1 THEN Succ(G, v) ELSE Pred(G, v)))

\* nx.bidirectional_dijkstra(G, source, target, weight='length'), its path.
bidirectional_dijkstra(G, source, target) ==
    IF source \notin DOMAIN G.nodes \/ target \notin DOMAIN G.nodes
    THEN [raised |-> "NodeNotFound", path |-> <<>>]
    ELSE IF source = target THEN [raised |-> "", path |-> <<source>>]
    ELSE
      LET none == [n \in Nodes |-> Absent]
          nopath == [n \in Nodes |-> <<>>]
      IN  BiLoop(G,
            [dists |-> <<none, none>>,
             seen |-> <<[none EXCEPT ![source] = 0], [none EXCEPT ![target] = 0]>>,
             paths |-> <<[nopath EXCEPT ![source] = <<source>>],
                         [nopath EXCEPT ![target] = <<target>>]>>,
             fringe |-> <<{<<0, 0, source>>}, {<<0, 1, target>>}>>,
             c |-> 2,
             finalpath |-> <<>>,
             finaldist |-> 0,
             dir |-> 2,
             raised |-> ""])

\* nx.shortest_path(G, source, target, weight='length').
shortest_path(G, source, target) == bidirectional_dijkstra(G, source, target)

\* ---------------------------------------------------------------- app.py
\* The try/except of get_shortest_route around the outcome r of
\* nx.shortest_path: the route, or None with an st.error when
\* NetworkXNoPath was raised; any other exception propagates.
RouteOrNone(r) ==
    IF r.raised = ""
    THEN [kind |-> "route", route |-> r.path, raised |-> "", ui |-> <<>>]
    ELSE IF r.raised = "NetworkXNoPath"
    THEN [kind |-> "None", route |-> <<>>, raised |-> "",
          ui |-> <<"error: No path exists between these locations.">>]
    ELSE [kind |-> "raise", route |-> <<>>, raised |-> r.raised, ui |-> <<>>]

\* RouteOrNone without the except clause.
RouteOrRaise(r) ==
    IF r.raised = ""
    THEN [kind |-> "route", route |-> r.path, raised |-> "", ui |-> <<>>]
    ELSE [kind |-> "raise", route |-> <<>>, raised |-> r.raised, ui |-> <<>>]

\* Mutant of get_shortest_route: NetworkXNoPath is not caught.
get_shortest_route_uncaught(G, origin_node, destination_node) ==
    RouteOrRaise(shortest_path(G, origin_node, destination_node))

\* Mutant of get_shortest_route: equal endpoints are reported as no path.
get_shortest_route_same_none(G, origin_node, destination_node) ==
    IF origin_node = destination_node
    THEN RouteOrNone([raised |-> "NetworkXNoPath", path |-> <<>>])
    ELSE RouteOrNone(shortest_path(G, origin_node, destination_node))

\* get_shortest_route
get_shortest_route(G, origin_node, destination_node) ==
    RouteOrNone(shortest_path(G, origin_node, destination_node))

\* DiGraph.get_edge_data(u, v, default): the edge's dict, or default when
\* there is no such edge.
get_edge_data(G, u, v, default) ==
    IF <<u, v>> \in DOMAIN G.adj
    THEN [type |-> "dict", dict |-> G.adj[<<u, v>>], int |-> 0]
    ELSE [type |-> "int", dict |-> {}, int |-> default]

\* Mutant of RouteLengthLoop: an edge without 'length' adds 1.
RECURSIVE RouteLengthLoop_default1(_, _, _, _)
RouteLengthLoop_default1(G, route, i, length) ==
    IF i > Len(route) - 1 THEN [raised |-> "", length |-> length]
    ELSE LET edge_data == get_edge_data(G, route[i], route[i + 1], 0)
         IN  IF edge_data.type # "dict"
             THEN [raised |-> "AttributeError", length |-> length]
             ELSE RouteLengthLoop_default1(G, route, i + 1,
                                  length + DictGet(edge_data.dict, "length", 1))

\* Mutant of RouteLengthLoop: the edge's length is assigned, not added.
RECURSIVE RouteLengthLoop_assign(_, _, _, _)
RouteLengthLoop_assign(G, route, i, length) ==
    IF i > Len(route) - 1 THEN [raised |-> "", length |-> length]
    ELSE LET edge_data == get_edge_data(G, route[i], route[i + 1], 0)
         IN  IF edge_data.type # "dict"
             THEN [raised |-> "AttributeError", length |-> length]
             ELSE RouteLengthLoop_assign(G, route, i + 1,
                                  DictGet(edge_data.dict, "length", 0))

\* The loop of get_route_length_km from index i with length accumulated.
RECURSIVE RouteLengthLoop(_, _, _, _)
RouteLengthLoop(G, route, i, length) ==
    IF i > Len(route) - 1 THEN [raised |-> "", length |-> length]
    ELSE LET edge_data == get_edge_data(G, route[i], route[i + 1], 0)
         IN  IF edge_data.type # "dict"
             THEN [raised |-> "AttributeError", length |-> length]
             ELSE RouteLengthLoop(G, route, i + 1,
                                  length + DictGet(edge_data.dict, "length", 0))

\* `return length / 1000` as a fraction, or the exception the loop raised.
Km(r) == [raised |-> r.raised, num |-> r.length, den |-> 1000]

\* get_route_length_km
get_route_length_km(G, route) == Km(RouteLengthLoop(G, route, 1, 0))

RECURSIVE SumSeq(_)
SumSeq(s) == IF s = <<>> THEN 0 ELSE Head(s) + SumSeq(Tail(s))

\* create_route_map: the centre (sum of the coordinates over their count),
\* the polyline and the two markers.
create_route_map(G, route, start_name, end_name) ==
    LET route_coords == [i \in 1..Len(route) |-> G.nodes[route[i]]]
        lats == [i \in 1..Len(route) |-> route_coords[i][1]]
        lons == [i \in 1..Len(route) |-> route_coords[i][2]]
    IN  [location |-> <<SumSeq(lats), SumSeq(lons), Len(route_coords)>>,
         zoom_start |-> 13,
         polyline |-> route_coords,
         markers |-> << [at |-> route_coords[1],
                         popup |-> <<"Start: ", start_name>>, color |-> "green"],
                        [at |-> route_coords[Len(route_coords)],
                         popup |-> <<"End: ", end_name>>, color |-> "red"] >>]

NoMap == [location |-> <<0, 0, 0>>, zoom_start |-> 0, polyline |-> <<>>,
          markers |-> <<>>]

\* f"{distance_km:.2f}": the distance in hundredths of a kilometre, rounded
\* half up.  That is what the format prints for every distance below 15
\* metres, the range of the modelled routes (5 metres prints as 0.01: the
\* double nearest 0.005 lies above it).  <<whole, hundredths>> stands for the
\* text "whole.hundredths".
Format2f(km) ==
    LET h == (km.num * 100 + km.den \div 2) \div km.den
    IN  <<h \div 100, h % 100>>

\* What a run that searched a route has to show for it.
NoResult(found) ==
    [status |-> "", ui |-> found.ui, route |-> found.route,
     distance_km |-> [raised |-> "", num |-> 0, den |-> 1000],
     shown |-> <<0, 0>>, route_map |-> NoMap]

\* main(), lines 99-102: show subheader, map and distance, unless
\* get_route_length_km raised.
ShowResult(found, distance_km, route_map) ==
    IF distance_km.raised # ""
    THEN [NoResult(found) EXCEPT !.status = distance_km.raised]
    ELSE [status |-> "completed",
          ui |-> found.ui \o <<"subheader", "map", "distance">>,
          route |-> found.route,
          distance_km |-> distance_km,
          shown |-> Format2f(distance_km),
          route_map |-> route_map]

\* main(), lines 93-102, with found the value get_shortest_route returned.
ShowRoute(G, found, start_location, end_location) ==
    IF found.kind = "raise"
    THEN [NoResult(found) EXCEPT !.status = found.raised]
    ELSE IF found.kind = "None"
    THEN [NoResult(found) EXCEPT !.status = "stopped",
                                 !.ui = @ \o <<"error: No route found.">>]
    ELSE ShowResult(found, get_route_length_km(G, found.route),
                    create_route_map(G, found.route, start_location, end_location))

\* main(), lines 92-102: find the route, stop on None, else measure it, build
\* the map and show subheader, map and distance.
FindAndShow(G, origin_node, destination_node, start_location, end_location) ==
    ShowRoute(G, get_shortest_route(G, origin_node, destination_node),
              start_location, end_location)

\* ------------------------------------------------- load_dehradun_graph
\* get_locations(): the catalogue in dict order, <<name, <<lat, lon>>>>
\* (its first entries).
get_locations ==
    << <<"Clock Tower", <<303253, 780413>>>>,
       <<"ISBT", <<302881, 780428>>>>,
       <<"Rajpur Road", <<303440, 780689>>>> >>

location_names == [i \in 1..Len(get_locations) |-> get_locations[i][1]]

\* locations[name]
locations(name) ==
    (CHOOSE e \in {get_locations[i] : i \in 1..Len(get_locations)} : e[1] = name)[2]

\* ox.distance.nearest_nodes(G, X, Y): the node nearest to (Y, X), the first
\* such node in node order on a tie (planar distance on the coordinates).
nearest_nodes(G, X, Y) ==
    LET d2(n) == (G.nodes[n][1] - Y) * (G.nodes[n][1] - Y)
                 + (G.nodes[n][2] - X) * (G.nodes[n][2] - X)
        N == DOMAIN G.nodes
    IN  CHOOSE n \in N :
          \A m \in N : d2(n) < d2(m) \/ (d2(n) = d2(m) /\ n <= m)

\* The attributes of the edge nx.DiGraph(G) keeps for a node pair: add_edge
\* updates one dict with each parallel edge's attributes in key order.
RECURSIVE MergeParallel(_, _)
MergeParallel(d, parallel) ==
    IF parallel = <<>> THEN d
    ELSE MergeParallel(DictUpdate(d, Head(parallel)), Tail(parallel))

\* nx.DiGraph(G) of a MultiDiGraph G.
DiGraph(G) ==
    [kind |-> "DiGraph", nodes |-> G.nodes,
     adj |-> [p \in DOMAIN G.adj |-> MergeParallel({}, G.adj[p])]]

NoneValue == [kind |-> "None", nodes |-> EmptyAdj, adj |-> EmptyAdj]

\* The body of load_dehradun_graph.  env.fault names the step that raises
\* ("" for none), env.net the network the service returns.
LoadBody(env) ==
    IF env.fault # ""
    THEN [value |-> NoneValue,
          ui |-> <<"error: Error loading map data">>]
    ELSE [value |-> DiGraph(env.net), ui |-> <<>>]

\* pickle.dumps / pickle.loads as st.cache_data uses them: the stored bytes
\* hold the value, and loading builds a new object (None is a singleton).
pickle_dumps(obj) == obj.value
pickle_loads(bytes, newref) ==
    [ref |-> IF bytes.kind = "None" THEN 0 ELSE newref, value |-> bytes]

\* Mutant of load_dehradun_graph: the decorator is missing, so every call
\* runs the body and nothing is stored.
load_dehradun_graph_uncached(c, env, newref) ==
    LET body == LoadBody(env)
    IN  [ret |-> [ref |-> IF body.value.kind = "None" THEN 0 ELSE newref,
                  value |-> body.value],
         ui |-> body.ui, cache |-> c, fetched |-> TRUE]

\* @st.cache_data around load_dehradun_graph: on a miss run the body, store
\* the pickled result with the messages it showed and return the result; on a
\* hit return a fresh unpickled copy and replay the messages.
load_dehradun_graph(c, env, newref) ==
    IF c.present
    THEN [ret |-> pickle_loads(c.pickled, newref), ui |-> c.messages,
          cache |-> c, fetched |-> FALSE]
    ELSE LET body == LoadBody(env)
             obj == [ref |-> IF body.value.kind = "None" THEN 0 ELSE newref,
                     value |-> body.value]
         IN  [ret |-> obj, ui |-> body.ui,
              cache |-> [present |-> TRUE, pickled |-> pickle_dumps(obj),
                         messages |-> body.ui],
              fetched |-> TRUE]

\* ---------------------------------------------------------------- main
\* Mutant of IsNone: main does not test the loaded graph.
IsNone_never(obj) == FALSE

\* Mutant of SameSelection: main does not compare the two names.
SameSelection_never(start_location, end_location) == FALSE

\* `if G is None`
IsNone(obj) == obj.value.kind = "None"

\* `if start_location == end_location`
SameSelection(start_location, end_location) == start_location = end_location

NoRun ==
    [status |-> "none", ui |-> <<>>, start_location |-> "", end_location |-> "",
     clicked |-> FALSE, resolved |-> FALSE, origin_node |-> 0,
     destination_node |-> 0, searched |-> FALSE, route |-> <<>>,
     distance_km |-> [raised |-> "", num |-> 0, den |-> 1000],
     shown |-> <<0, 0>>, route_map |-> NoMap]

\* The run r with the outcome f of the route search between the nodes.
WithOutcome(r, origin_node, destination_node, f) ==
    [r EXCEPT !.resolved = TRUE,
              !.origin_node = origin_node,
              !.destination_node = destination_node,
              !.searched = TRUE,
              !.status = f.status,
              !.ui = @ \o f.ui,
              !.route = f.route,
              !.distance_km = f.distance_km,
              !.shown = f.shown,
              !.route_map = f.route_map]

\* main(), lines 86-102, in the run r: resolve both names and show the route.
Pressed(r, G, origin_node, destination_node) ==
    WithOutcome(r, origin_node, destination_node,
                FindAndShow(G, origin_node, destination_node,
                            r.start_location, r.end_location))

\* main(), lines 85-102, in the run r that showed the selectboxes.
Button(r, G) ==
    IF ~ r.clicked THEN [r EXCEPT !.status = "completed"]
    ELSE Pressed(r, G,
                 nearest_nodes(G, locations(r.start_location)[2],
                               locations(r.start_location)[1]),
                 nearest_nodes(G, locations(r.end_location)[2],
                               locations(r.end_location)[1]))

\* main(), lines 81-102, in the run r that showed the selectboxes.
Selected(r, G) ==
    IF SameSelection(r.start_location, r.end_location)
    THEN [r EXCEPT
            !.ui = @ \o <<"warning: Start and destination must be different.">>,
            !.status = "stopped"]
    ELSE Button([r EXCEPT !.ui = @ \o <<"button">>], G)

\* main() after load_dehradun_graph returned G and showed loadui.
main(G, loadui, start_location, end_location, clicked) ==
    IF IsNone(G)
    THEN [NoRun EXCEPT !.ui = <<"title">> \o loadui,
                       !.clicked = clicked,
                       !.status = "stopped"]
    ELSE Selected([NoRun EXCEPT
                     !.ui = <<"title">> \o loadui
                            \o <<"selectbox start", "selectbox end">>,
                     !.clicked = clicked,
                     !.start_location = start_location,
                     !.end_location = end_location],
                  G.value)

\* ---------------------------------------------------------------- state
VARIABLES
    cache,      \* st.cache_data's entry for load_dehradun_graph
    network,    \* the network the geodata service returned, once fetched
    fetches,    \* calls of ox.graph_from_place so far
    returned,   \* the objects load_dehradun_graph returned, one per run
    run,        \* the last script run: its inputs, locals and output
    nopath,     \* whether some run so far ended with 'No route found.'
    graph,      \* SpecRoute: the graph handed to the pure functions
    call        \* SpecRoute: the last call and its result

vars == <<cache, network, fetches, returned, run, nopath, graph, call>>

NoNetwork == [kind |-> "None", nodes |-> EmptyAdj, adj |-> EmptyAdj]
NoCall == [fn |-> "none", origin |-> 0, destination |-> 0, route |-> <<>>,
           kind |-> "", raised |-> "", result |-> <<>>, num |-> 0, den |-> 1,
           shown |-> <<0, 0>>]

\* What the environment can do to a call of load_dehradun_graph: nothing on a
\* cache hit; on a miss the service returns a network, or the fetch or the
\* conversion raises.
LoadEnvs ==
    IF cache.present THEN {[fault |-> "", net |-> NoNetwork]}
    ELSE {[fault |-> "", net |-> n] : n \in Networks}
         \cup {[fault |-> f, net |-> NoNetwork] : f \in {"fetch", "convert"}}

\* One run of the script with the widget values start, end and clicked.
Script(start, end, clicked) ==
    /\ Len(returned) < MaxRuns
    /\ \E env \in LoadEnvs :
         \E ld \in {load_dehradun_graph(cache, env, Len(returned) + 1)} :
             /\ cache' = ld.cache
             /\ network' = IF ld.fetched /\ env.fault = "" THEN env.net ELSE network
             /\ fetches' = IF ld.fetched THEN fetches + 1 ELSE fetches
             /\ returned' = Append(returned, ld.ret)
             /\ run' = main(ld.ret, ld.ui, start, end, clicked)
             /\ nopath' = (nopath \/ (run'.searched /\ run'.status = "stopped"))
    /\ UNCHANGED <<graph, call>>

\* The user opens (or reloads) the page: a new session with the default
\* selections, index 0 and index 1.
OpenPage == Script(location_names[1], location_names[2], FALSE)

\* The user picks another start in the selectbox the last run showed.
ChooseStart ==
    /\ \E i \in 1..Len(run.ui) : run.ui[i] = "selectbox start"
    /\ \E n \in {location_names[i] : i \in 1..Len(location_names)} :
         /\ n # run.start_location
         /\ Script(n, run.end_location, FALSE)

\* The user picks another destination.
ChooseEnd ==
    /\ \E i \in 1..Len(run.ui) : run.ui[i] = "selectbox end"
    /\ \E n \in {location_names[i] : i \in 1..Len(location_names)} :
         /\ n # run.end_location
         /\ Script(run.start_location, n, FALSE)

\* The user presses 'Find Shortest Route', shown by the last run.
ClickButton ==
    /\ \E i \in 1..Len(run.ui) : run.ui[i] = "button"
    /\ Script(run.start_location, run.end_location, TRUE)

Init ==
    /\ cache = [present |-> FALSE, pickled |-> NoneValue, messages |-> <<>>]
    /\ network = NoNetwork
    /\ fetches = 0
    /\ returned = <<>>
    /\ run = NoRun
    /\ nopath = FALSE
    /\ graph = NoNetwork
    /\ call = NoCall

Next == OpenPage \/ ChooseStart \/ ChooseEnd \/ ClickButton

Spec == Init /\ [][Next]_vars

\* ------------------------------------------------- the functions alone
\* The routes handed to get_route_length_km: every node sequence of at most
\* MaxRouteLen nodes, paths of the graph or not.
MaxRouteLen == Cardinality(Nodes)
Routes == UNION {[1..n -> Nodes] : n \in 0..MaxRouteLen}

InitRoute ==
    /\ cache = [present |-> FALSE, pickled |-> NoneValue, messages |-> <<>>]
    /\ network = NoNetwork
    /\ fetches = 0
    /\ returned = <<>>
    /\ run = NoRun
    /\ nopath = FALSE
    /\ graph \in DiGraphs
    /\ call = NoCall

\* get_shortest_route(graph, origin, destination)
CallShortestRoute ==
    /\ call.fn = "none"
    /\ \E origin \in Nodes, destination \in Nodes :
         \E r \in {get_shortest_route(graph, origin, destination)} :
             /\ call' = [NoCall EXCEPT !.fn = "get_shortest_route",
                                       !.origin = origin,
                                       !.destination = destination,
                                       !.kind = r.kind, !.raised = r.raised,
                                       !.result = r.route]
             /\ UNCHANGED <<cache, network, fetches, returned, run, nopath, graph>>

\* get_route_length_km(graph, route)
CallRouteLength ==
    /\ call.fn = "none"
    /\ \E route \in Routes :
         \E r \in {get_route_length_km(graph, route)} :
             /\ call' = [NoCall EXCEPT !.fn = "get_route_length_km",
                                       !.route = route,
                                       !.kind = IF r.raised = "" THEN "float" ELSE "raise",
                                       !.raised = r.raised,
                                       !.num = r.num, !.den = r.den]
             /\ UNCHANGED <<cache, network, fetches, returned, run, nopath, graph>>

\* main()'s lines 92-102 on the nodes origin and destination.
CallFindAndShow ==
    /\ call.fn = "none"
    /\ \E origin \in Nodes, destination \in Nodes :
         \E f \in {FindAndShow(graph, origin, destination, "start", "end")} :
             /\ call' = [NoCall EXCEPT !.fn = "FindAndShow",
                                       !.origin = origin,
                                       !.destination = destination,
                                       !.kind = f.status,
                                       !.result = f.route,
                                       !.num = f.distance_km.num,
                                       !.den = f.distance_km.den,
                                       !.shown = f.shown]
             /\ UNCHANGED <<cache, network, fetches, returned, run, nopath, graph>>

NextRoute == CallShortestRoute \/ CallRouteLength \/ CallFindAndShow

SpecRoute == InitRoute /\ [][NextRoute]_vars

\* ------------------------------------- collapse, then the route search
CollapseNetworks ==
    {[kind |-> "MultiDiGraph", nodes |-> NodeCoords, adj |-> a] :
        a \in MultiAdjs(MaxCollapseEdges)}

InitNetwork ==
    /\ cache = [present |-> FALSE, pickled |-> NoneValue, messages |-> <<>>]
    /\ network \in CollapseNetworks
    /\ fetches = 0
    /\ returned = <<>>
    /\ run = NoRun
    /\ nopath = FALSE
    /\ graph = NoNetwork
    /\ call = NoCall

\* The body of load_dehradun_graph on the fetched network, then main()'s
\* lines 92-102 on the graph it returned.
LoadAndFind ==
    /\ call.fn = "none"
    /\ \E origin \in Nodes, destination \in Nodes :
         \E G \in {LoadBody([fault |-> "", net |-> network]).value} :
         \E f \in {FindAndShow(G, origin, destination, "start", "end")} :
             /\ graph' = G
             /\ call' = [NoCall EXCEPT !.fn = "FindAndShow",
                                       !.origin = origin,
                                       !.destination = destination,
                                       !.kind = f.status,
                                       !.result = f.route,
                                       !.num = f.distance_km.num,
                                       !.den = f.distance_km.den,
                                       !.shown = f.shown]
             /\ UNCHANGED <<cache, network, fetches, returned, run, nopath>>

NextNetwork == LoadAndFind

SpecNetwork == InitNetwork /\ [][NextNetwork]_vars

\* ================================================================ claims
\* Node sequences of at most Cardinality(Nodes) + 1 nodes: every simple path
\* and the shortest non-simple walks.
NodeSeqs == UNION {[1..n -> Nodes] : n \in 1..(Cardinality(Nodes) + 1)}

\* Every consecutive pair of w is an edge of G.
IsPath(G, w) == \A i \in 1..(Len(w) - 1) : <<w[i], w[i + 1]>> \in DOMAIN G.adj

\* The paths of G from o to d.
PathsBetween(G, o, d) ==
    {w \in NodeSeqs : w[1] = o /\ w[Len(w)] = d /\ IsPath(G, w)}

\* The sum over the edges of w of f(edge data).
SumOver(G, w, f(_)) ==
    IF Len(w) < 2 THEN 0
    ELSE SumSeq([i \in 1..(Len(w) - 1) |-> f(G.adj[<<w[i], w[i + 1]>>])])

\* An edge's 'length' where the attribute is missing: 1 for the search,
\* 0 for the sum.
LengthOr1(d) == DictGet(d, "length", 1)
LengthOr0(d) == DictGet(d, "length", 0)

\* a <= b for two fractions [num, den].
KmLeq(a, b) == a.num * b.den <= b.num * a.den

Shown(element) == \E i \in 1..Len(run.ui) : run.ui[i] = element

LastReturned == returned[Len(returned)]

\* C1: when the destination is reachable from the origin,
\* get_shortest_route returns a non-empty node sequence from origin to
\* destination whose consecutive pairs are edges of G and whose total edge
\* 'length' (as nx.shortest_path weighs it: an edge without 'length' counts
\* 1) is least among all paths from origin to destination.
C1_ShortestRoute ==
    (call.fn = "get_shortest_route"
       /\ PathsBetween(graph, call.origin, call.destination) # {})
    => /\ call.kind = "route"
       /\ Len(call.result) >= 1
       /\ call.result[1] = call.origin
       /\ call.result[Len(call.result)] = call.destination
       /\ IsPath(graph, call.result)
       /\ \A w \in PathsBetween(graph, call.origin, call.destination) :
            SumOver(graph, call.result, LengthOr1) <= SumOver(graph, w, LengthOr1)

\* A route of two edges was returned although a direct edge exists.
C1_Witness ==
    /\ call.fn = "get_shortest_route"
    /\ call.kind = "route"
    /\ Len(call.result) = 3
    /\ <<call.origin, call.destination>> \in DOMAIN graph.adj

\* Every edge of the fetched network carries a 'length'.
AllHaveLength(net) ==
    \A p \in DOMAIN net.adj : \A k \in 1..Len(net.adj[p]) :
        \E kv \in net.adj[p][k] : kv[1] = "length"

\* The least length among the parallel edges of the network between a pair.
ShortestParallel(parallel) ==
    CHOOSE m \in {LengthOr1(parallel[k]) : k \in 1..Len(parallel)} :
        \A k \in 1..Len(parallel) : m <= LengthOr1(parallel[k])

\* C2 (as claimed): the route found on the collapsed graph is a shortest
\* route of the fetched network: no path of the network, whichever of the
\* parallel edges it takes, is shorter than the route along its own best
\* parallel edges.
C2_ShortestInFetchedNetwork ==
    (call.fn = "FindAndShow" /\ call.kind = "completed" /\ AllHaveLength(network))
    => \A w \in PathsBetween(network, call.origin, call.destination) :
         SumOver(network, call.result, ShortestParallel)
           <= SumOver(network, w, ShortestParallel)

\* C3: nodes are resolved, a route is searched and a map is shown only in a
\* run whose graph loaded, whose two selected names differ and in which the
\* button was pressed; a run with the same name selected twice shows the
\* warning and stops without resolving or searching.
C3_RouteOnlyOnRequest ==
    /\ (run.resolved \/ run.searched \/ Shown("map") \/ Shown("distance"))
       => /\ LastReturned.value.kind = "DiGraph"
          /\ run.start_location # run.end_location
          /\ run.clicked
    /\ (Shown("selectbox end") /\ run.start_location = run.end_location)
       => /\ Shown("warning: Start and destination must be different.")
          /\ run.status = "stopped"
          /\ ~ run.resolved /\ ~ run.searched
          /\ ~ Shown("button") /\ ~ Shown("map") /\ ~ Shown("distance")

\* A later run of the session in which the same name is selected twice.
C3_Witness ==
    /\ Shown("selectbox end")
    /\ run.start_location = run.end_location
    /\ run.status = "stopped"
    /\ Len(returned) >= 2

\* C4: when the destination node is unreachable from the origin node the
\* search raises nothing, the run shows both error messages and stops, and
\* neither a map nor a distance is shown.
C4_NoPathReported ==
    (run.searched
       /\ PathsBetween(LastReturned.value, run.origin_node, run.destination_node) = {})
    => /\ run.status = "stopped"
       /\ Shown("error: No path exists between these locations.")
       /\ Shown("error: No route found.")
       /\ ~ Shown("subheader") /\ ~ Shown("map") /\ ~ Shown("distance")
       /\ run.route = <<>>

\* A run shows a route after an earlier run of the process found none.
C4_Witness ==
    /\ nopath
    /\ run.searched
    /\ run.status = "completed"
    /\ Shown("map")

\* C5: when the fetch or the conversion raised, load_dehradun_graph returns
\* None in this and every later run, showing its error message, and main
\* stops before the selectors: only the title and the error are shown and
\* nothing is resolved or searched.
C5_LoadFailureStops ==
    (fetches >= 1 /\ network.kind = "None")
    => /\ LastReturned.value.kind = "None"
       /\ run.ui = <<"title", "error: Error loading map data">>
       /\ run.status = "stopped"
       /\ ~ run.resolved /\ ~ run.searched

\* A second run of a process whose fetch failed.
C5_Witness ==
    /\ fetches >= 1
    /\ network.kind = "None"
    /\ Len(returned) >= 2
    /\ run.status = "stopped"

\* C6 (as claimed): the network is fetched at most once and every later
\* call returns the very object the first call returned.
C6_SameReference ==
    /\ fetches <= 1
    /\ \A i \in 1..Len(returned) : returned[i].ref = returned[1].ref

\* C6 (amended): the network is fetched at most once, on the first call, and
\* every call returns a graph equal in value to the first call's; a call
\* that returns a graph returns an object of its own, no earlier call's.
C6_FetchedOnceEqualCopies ==
    /\ fetches <= 1
    /\ (Len(returned) >= 1 => fetches = 1)
    /\ \A i \in 1..Len(returned) :
         /\ returned[i].value = returned[1].value
         /\ \A j \in 1..Len(returned) :
              (i # j /\ returned[i].value.kind = "DiGraph")
              => returned[i].ref # returned[j].ref

\* Three calls have returned three graphs.
C6_Witness ==
    /\ Len(returned) >= 3
    /\ returned[3].value.kind = "DiGraph"
    /\ DOMAIN returned[3].value.adj # {}

\* C7 (as claimed): get_route_length_km raises for no node sequence and
\* returns the sum of the 'length' of its consecutive pairs over 1000, a
\* pair without length data adding 0.
C7_NeverRaises ==
    (call.fn = "get_route_length_km")
    => /\ call.raised = ""
       /\ call.den = 1000

\* C7 (amended): for a route whose consecutive pairs are all edges of G,
\* get_route_length_km raises nothing and returns the sum of the edges'
\* 'length' over 1000, an edge without 'length' adding 0; for a route with
\* a consecutive pair that is no edge of G it raises AttributeError.
C7_SumOverEdges ==
    (call.fn = "get_route_length_km")
    => IF IsPath(graph, call.route)
       THEN /\ call.raised = ""
            /\ call.num = SumOver(graph, call.route, LengthOr0)
            /\ call.den = 1000
       ELSE call.raised = "AttributeError"

\* A route of two edges, one of them without 'length', was measured.
C7_Witness ==
    /\ call.fn = "get_route_length_km"
    /\ Len(call.route) = 3
    /\ IsPath(graph, call.route)
    /\ graph.adj[<<call.route[1], call.route[2]>>] = {}
    /\ call.num > 0

\* C8 (as claimed): the distance shown is the least distance
\* get_route_length_km reports for any path from origin to destination.
C8_ShownDistanceLeast ==
    (call.fn = "FindAndShow" /\ call.kind = "completed")
    => \A w \in PathsBetween(graph, call.origin, call.destination) :
         KmLeq([num |-> call.num, den |-> call.den],
               get_route_length_km(graph, w))

\* C9: when two different names resolve to one node, the route is that
\* single node, its length is 0 km, and the run completes showing the map
\* and the distance 0.00.
C9_SameNode ==
    (run.searched /\ run.origin_node = run.destination_node)
    => /\ run.start_location # run.end_location
       /\ run.route = <<run.origin_node>>
       /\ run.distance_km.num = 0
       /\ run.distance_km.raised = ""
       /\ run.status = "completed"
       /\ Shown("map") /\ Shown("distance")
       /\ run.shown = <<0, 0>>
       /\ Len(run.route_map.polyline) = 1

\* Two different names resolved to the same node and the run completed.
C9_Witness ==
    /\ run.searched
    /\ run.origin_node = run.destination_node
    /\ run.start_location # run.end_location
    /\ run.status = "completed"

\* C10: for a route whose consecutive pairs are edges of G (all lengths
\* being non-negative) get_route_length_km returns a non-negative value,
\* and the route extended by one more edge measures no less.
C10_NonNegativeMonotone ==
    (call.fn = "get_route_length_km" /\ IsPath(graph, call.route))
    => /\ call.raised = ""
       /\ call.num >= 0
       /\ \A n \in Nodes :
            (Len(call.route) >= 1
               /\ <<call.route[Len(call.route)], n>> \in DOMAIN graph.adj)
            => KmLeq([num |-> call.num, den |-> call.den],
                     get_route_length_km(graph, Append(call.route, n)))

\* A route of positive length that an edge of length 0 extends.
C10_Witness ==
    /\ call.fn = "get_route_length_km"
    /\ IsPath(graph, call.route)
    /\ call.num > 0
    /\ \E n \in Nodes :
         /\ <<call.route[Len(call.route)], n>> \in DOMAIN graph.adj
         /\ graph.adj[<<call.route[Len(call.route)], n>>] = {<<"length", 0>>}

====
